---- MODULE Spec2Model ----
(***************************************************************************)
(* cloudbridge/cloud/base.py: the three algorithms of the provider-neutral *)
(* base classes.                                                           *)
(*   - BaseObjectLifeCycleMixin.wait_for  (the resource-state waiter)      *)
(*   - BasePageableObjectMixin.__iter__   (the marker-based page iterator) *)
(*   - BaseLaunchConfig                   (the block-device validator)     *)
(* Each component has its own specification (SpecWait, SpecReady,          *)
(* SpecIter, SpecLaunch); the variables of the other components stay at    *)
(* their constructed values.                                               *)
(***************************************************************************)
EXTENDS Integers, Sequences, FiniteSets, TLC

\* ------------------------------------------------------------------ bounds
\* largest timeout argument tried by SpecWait
MaxTimeout == 3
\* largest interval argument tried by SpecWait
MaxInterval == 2
\* the counters of the sleeps and refreshes of one wait_for call stop counting
\* at MaxPolls: only a wait with interval = 0, which can poll without end,
\* gets there
MaxPolls == 7
\* longest scripted prefix of refresh() outcomes in SpecReady
MaxScript == 3

VARIABLES
    \* ---- the resource and one wait_for call on it
    state,            \* self.state: the resource's cached state token
    w_pc,             \* position of the wait_for call
    w_result,         \* how the wait_for call ended
    now,              \* time.time()
    end_time,         \* local end_time of wait_for
    target_states,    \* argument target_states
    terminal_states,  \* argument terminal_states ([isNone, val]; None allowed)
    timeout,          \* argument timeout
    interval,         \* argument interval
    nRefresh,         \* number of self.refresh() calls made by this wait_for
    nSleep,           \* number of time.sleep(interval) calls made by this wait_for
    call_time,        \* time.time() when wait_for was called
    call_state,       \* self.state when wait_for was called
    seen,             \* every state the resource showed during the call
    script0,          \* outcomes the backend is set up to give to refresh() calls
    script            \* what is left of script0

waitVars == <<state, w_pc, w_result, now, end_time, target_states,
              terminal_states, timeout, interval, nRefresh, nSleep,
              call_time, call_state, seen, script0, script>>

\* ---- the page source and the iterations over it (one generator per id)
VARIABLES
    pages,            \* the backend: the ResultList that list(marker=m) returns
    it_pc,            \* position of each generator
    marker,           \* local marker of each generator
    more_results,     \* local more_results of each generator
    result_list,      \* local result_list of each generator
    pos,              \* position of the for loop in result_list
    yielded,          \* the items each generator has yielded so far
    fetched,          \* the markers each generator has passed to list()
    it_result,        \* how each generator ended
    prev_yielded,     \* what the generator before this one had yielded
    prev_result       \* how the generator before this one ended

iterVars == <<pages, it_pc, marker, more_results, result_list, pos, yielded,
              fetched, it_result, prev_yielded, prev_result>>

\* ---- one BaseLaunchConfig
VARIABLES
    block_devices,    \* self.block_devices
    net_ids,          \* self.net_ids
    lc_result         \* how the last add_* call ended

\* ---- callers of add_volume_device on that config from several threads
VARIABLES
    pending,          \* per caller: the local block_device, validated and not
                      \* appended yet (<<>> when the caller is in no call)
    overlap           \* a validation ran while another caller's was pending

callVars == <<pending, overlap>>

lcVars == <<block_devices, net_ids, lc_result, callVars>>

vars == <<waitVars, iterVars, lcVars>>

\* ------------------------------------------------------------ the resource
\* InstanceState tokens used by BaseInstance.wait_till_ready and its callers
States == {"PENDING", "RUNNING", "ERROR", "TERMINATED"}

\* what a refresh() call can do: set self.state, or raise a backend error
BackendError == "BackendError"
Outcomes == States \cup {BackendError}

\* terminal_states=None, or a collection of states
NoneStates == [isNone |-> TRUE, val |-> {}]
SomeStates(S) == [isNone |-> FALSE, val |-> S]

\* (terminal_states or [])
OrEmpty(ts) == IF ts.isNone THEN {} ELSE ts.val

\* argument families tried by the callers in SpecWait
TargetChoices == SUBSET {"RUNNING", "ERROR"}
TerminalChoices == {NoneStates} \cup {SomeStates(S) : S \in SUBSET {"ERROR", "TERMINATED"}}
TimeoutChoices == -1 .. MaxTimeout
IntervalChoices == -1 .. MaxInterval

\* the three assert statements of wait_for
ValidArgs(t, i) == t >= 0 /\ i >= 0 /\ t >= i

\* ------------------------------------------------------------- wait_for
\* wait_for is called: the asserts, then end_time = time.time() + timeout
wait_for(targets, terminals, t, i) ==
    /\ w_pc = "idle"
    /\ target_states' = targets
    /\ terminal_states' = terminals
    /\ timeout' = t
    /\ interval' = i
    /\ call_time' = now
    /\ call_state' = state
    /\ seen' = {state}
    /\ nRefresh' = 0
    /\ nSleep' = 0
    /\ IF ValidArgs(t, i)
       THEN /\ end_time' = now + t
            /\ w_pc' = "while"
            /\ w_result' = "none"
       ELSE /\ end_time' = end_time
            /\ w_pc' = "done"
            /\ w_result' = "AssertionError"
    /\ UNCHANGED <<state, now, script0, script>>
    /\ UNCHANGED <<iterVars, lcVars>>

\* a variant that runs the loop body once before it tests the state (do-while)
DoWhileNotTarget ==
    /\ w_pc = "while"
    /\ IF state \in target_states /\ nSleep > 0
       THEN /\ w_pc' = "done"
            /\ w_result' = "True"
       ELSE /\ w_pc' = "if_terminal"
            /\ w_result' = w_result
    /\ UNCHANGED <<state, now, end_time, target_states, terminal_states,
                   timeout, interval, nRefresh, nSleep, call_time,
                   call_state, seen, script0, script>>
    /\ UNCHANGED <<iterVars, lcVars>>

\* a variant that tests terminal_states before target_states
WhileTerminalFirst ==
    /\ w_pc = "while"
    /\ IF state \in OrEmpty(terminal_states)
       THEN /\ w_pc' = "done"
            /\ w_result' = "TerminalState"
       ELSE IF state \in target_states
       THEN /\ w_pc' = "done"
            /\ w_result' = "True"
       ELSE /\ w_pc' = "if_terminal"
            /\ w_result' = w_result
    /\ UNCHANGED <<state, now, end_time, target_states, terminal_states,
                   timeout, interval, nRefresh, nSleep, call_time,
                   call_state, seen, script0, script>>
    /\ UNCHANGED <<iterVars, lcVars>>

\* while self.state not in target_states: ... (else) return True
WhileNotTarget ==
    /\ w_pc = "while"
    /\ IF state \in target_states
       THEN /\ w_pc' = "done"
            /\ w_result' = "True"
       ELSE /\ w_pc' = "if_terminal"
            /\ w_result' = w_result
    /\ UNCHANGED <<state, now, end_time, target_states, terminal_states,
                   timeout, interval, nRefresh, nSleep, call_time,
                   call_state, seen, script0, script>>
    /\ UNCHANGED <<iterVars, lcVars>>

\* a variant that sleeps once more before it raises
IfTerminalSleepsFirst ==
    /\ w_pc = "if_terminal"
    /\ IF state \in OrEmpty(terminal_states) /\ nSleep > 0
       THEN /\ w_pc' = "done"
            /\ w_result' = "TerminalState"
       ELSE /\ w_pc' = "sleep"
            /\ w_result' = w_result
    /\ UNCHANGED <<state, now, end_time, target_states, terminal_states,
                   timeout, interval, nRefresh, nSleep, call_time,
                   call_state, seen, script0, script>>
    /\ UNCHANGED <<iterVars, lcVars>>

\* if self.state in (terminal_states or []): raise WaitStateException(...)
IfTerminal ==
    /\ w_pc = "if_terminal"
    /\ IF state \in OrEmpty(terminal_states)
       THEN /\ w_pc' = "done"
            /\ w_result' = "TerminalState"
       ELSE /\ w_pc' = "sleep"
            /\ w_result' = w_result
    /\ UNCHANGED <<state, now, end_time, target_states, terminal_states,
                   timeout, interval, nRefresh, nSleep, call_time,
                   call_state, seen, script0, script>>
    /\ UNCHANGED <<iterVars, lcVars>>

\* a variant whose sleep lets no time pass
SleepStandsStill ==
    /\ w_pc = "sleep"
    /\ now' = now
    /\ nSleep' = IF nSleep < MaxPolls THEN nSleep + 1 ELSE nSleep
    /\ w_pc' = "if_timeout"
    /\ UNCHANGED <<state, w_result, end_time, target_states, terminal_states,
                   timeout, interval, nRefresh, call_time, call_state, seen,
                   script0, script>>
    /\ UNCHANGED <<iterVars, lcVars>>

\* a variant that sleeps for timeout instead of interval
SleepTimeout ==
    /\ w_pc = "sleep"
    /\ now' = now + timeout
    /\ nSleep' = IF nSleep < MaxPolls THEN nSleep + 1 ELSE nSleep
    /\ w_pc' = "if_timeout"
    /\ UNCHANGED <<state, w_result, end_time, target_states, terminal_states,
                   timeout, interval, nRefresh, call_time, call_state, seen,
                   script0, script>>
    /\ UNCHANGED <<iterVars, lcVars>>

\* time.sleep(interval): the clock advances by exactly interval
Sleep ==
    /\ w_pc = "sleep"
    /\ now' = now + interval
    /\ nSleep' = IF nSleep < MaxPolls THEN nSleep + 1 ELSE nSleep
    /\ w_pc' = "if_timeout"
    /\ UNCHANGED <<state, w_result, end_time, target_states, terminal_states,
                   timeout, interval, nRefresh, call_time, call_state, seen,
                   script0, script>>
    /\ UNCHANGED <<iterVars, lcVars>>

\* a variant that gives up as soon as the deadline is reached
IfTimeoutAtDeadline ==
    /\ w_pc = "if_timeout"
    /\ IF now >= end_time
       THEN /\ w_pc' = "done"
            /\ w_result' = "WaitTimeout"
       ELSE /\ w_pc' = "refresh"
            /\ w_result' = w_result
    /\ UNCHANGED <<state, now, end_time, target_states, terminal_states,
                   timeout, interval, nRefresh, nSleep, call_time,
                   call_state, seen, script0, script>>
    /\ UNCHANGED <<iterVars, lcVars>>

\* if time.time() > end_time: raise WaitStateException(...)
IfTimeout ==
    /\ w_pc = "if_timeout"
    /\ IF now > end_time
       THEN /\ w_pc' = "done"
            /\ w_result' = "WaitTimeout"
       ELSE /\ w_pc' = "refresh"
            /\ w_result' = w_result
    /\ UNCHANGED <<state, now, end_time, target_states, terminal_states,
                   timeout, interval, nRefresh, nSleep, call_time,
                   call_state, seen, script0, script>>
    /\ UNCHANGED <<iterVars, lcVars>>

\* the outcomes the backend can give to the next refresh(): the scripted one
\* while the script lasts, any outcome after it
NextOutcomes == IF script = <<>> THEN Outcomes ELSE {Head(script)}

\* refresh() whose error wait_for swallows, polling on with the old state
RefreshSwallowsError(o) ==
    /\ w_pc = "refresh"
    /\ o \in NextOutcomes
    /\ nRefresh' = IF nRefresh < MaxPolls THEN nRefresh + 1 ELSE nRefresh
    /\ script' = IF script = <<>> THEN script ELSE Tail(script)
    /\ w_pc' = "while"
    /\ w_result' = w_result
    /\ state' = IF o = BackendError THEN state ELSE o
    /\ seen' = IF o = BackendError THEN seen ELSE seen \cup {o}
    /\ UNCHANGED <<now, end_time, target_states, terminal_states, timeout,
                   interval, nSleep, call_time, call_state, script0>>
    /\ UNCHANGED <<iterVars, lcVars>>

\* self.refresh(): sets self.state from the backend, or raises its error,
\* which wait_for lets through
Refresh(o) ==
    /\ w_pc = "refresh"
    /\ o \in NextOutcomes
    /\ nRefresh' = IF nRefresh < MaxPolls THEN nRefresh + 1 ELSE nRefresh
    /\ script' = IF script = <<>> THEN script ELSE Tail(script)
    /\ IF o = BackendError
       THEN /\ w_pc' = "done"
            /\ w_result' = BackendError
            /\ UNCHANGED <<state, seen>>
       ELSE /\ w_pc' = "while"
            /\ w_result' = w_result
            /\ state' = o
            /\ seen' = seen \cup {o}
    /\ UNCHANGED <<now, end_time, target_states, terminal_states, timeout,
                   interval, nSleep, call_time, call_state, script0>>
    /\ UNCHANGED <<iterVars, lcVars>>

\* the two messages of wait_for, each formatted with self and self.state
MsgTerminal == "Object: {0} is in state: {1} which is a terminal state and cannot be waited on."
MsgTimeout == "Waited too long for object: {0} to become ready. It's still in state: {1}"

\* a variant with one exception class for each cause
WaitStateExceptionByCause(message, st) ==
    [type |-> IF message = MsgTimeout THEN "WaitTimeoutException"
              ELSE "TerminalStateException",
     message |-> message, state |-> st]

\* WaitStateException(message.format(self, self.state)): the class of both
\* raise statements of wait_for
WaitStateException(message, st) ==
    [type |-> "WaitStateException", message |-> message, state |-> st]

\* the exception a wait has raised at its terminal test or its timeout
\* test: both raise sites read self.state, which nothing changes afterwards
Raised ==
    IF w_result = "TerminalState" THEN WaitStateException(MsgTerminal, state)
    ELSE IF w_result = "WaitTimeout" THEN WaitStateException(MsgTimeout, state)
    ELSE [type |-> "none", message |-> "none", state |-> "none"]

\* BaseInstance.wait_till_ready
wait_till_ready(t, i) ==
    wait_for({"RUNNING"}, SomeStates({"TERMINATED", "ERROR"}), t, i)

\* ----------------------------------------------------------- the iterator
\* cap on the list() calls of one generator (a backend may never stop)
MaxFetch == 4

\* generators that may exist over the one page source
IterIds == {1, 2}

\* marker=None and the cursors the backend hands out
NoMarker == "None"
Markers == {NoMarker, "a", "b"}

\* the items of a page: the page that marker m asks for holds n items
PageLens == {0, 1, 2}
Data(m, n) == [k \in 1 .. n |-> <<m, k>>]

\* BaseResultList(is_truncated, marker, ..., data): what iteration reads of it
BaseResultList(is_truncated, mk, data) ==
    [data |-> data, marker |-> mk, is_truncated |-> is_truncated]

EmptyResultList == BaseResultList(FALSE, NoMarker, <<>>)

\* the pages a stable backend can hold for the request list(marker=m)
PageChoices(m) ==
    {BaseResultList(t, mk, Data(m, n)) : t \in BOOLEAN, mk \in Markers, n \in PageLens}

\* the items of the pages that the markers ms ask for, page after page
RECURSIVE Flatten(_)
Flatten(ms) ==
    IF ms = <<>> THEN <<>> ELSE pages[Head(ms)].data \o Flatten(Tail(ms))

\* the markers a walk of the backend passes to list(), starting with marker
\* m and making at most n calls: it goes on while the page is truncated
RECURSIVE Walk(_, _)
Walk(m, n) ==
    IF n = 0 THEN <<>>
    ELSE IF pages[m].is_truncated THEN <<m>> \o Walk(pages[m].marker, n - 1)
    ELSE <<m>>

Running(i) == it_pc[i] \in {"while", "for"}

\* a variant that keeps the cursor in the object, not in the generator
iter_keeps_marker(i) ==
    /\ prev_result' = [prev_result EXCEPT ![i] =
           IF it_pc[i] = "none" THEN "none"
           ELSE IF Running(i) THEN "abandoned" ELSE it_result[i]]
    /\ prev_yielded' = [prev_yielded EXCEPT ![i] =
           IF it_result[i] = "done" THEN yielded[i] ELSE <<>>]
    /\ more_results' = [more_results EXCEPT ![i] = TRUE]
    /\ marker' = marker
    /\ result_list' = [result_list EXCEPT ![i] = EmptyResultList]
    /\ pos' = [pos EXCEPT ![i] = 0]
    /\ yielded' = [yielded EXCEPT ![i] = <<>>]
    /\ fetched' = [fetched EXCEPT ![i] = <<>>]
    /\ it_result' = [it_result EXCEPT ![i] = "none"]
    /\ it_pc' = [it_pc EXCEPT ![i] = "while"]
    /\ UNCHANGED pages
    /\ UNCHANGED <<waitVars, lcVars>>

\* __iter__ is called and the new generator runs up to its loop:
\* more_results = True; marker = None.  The generator there was for this id,
\* if any, is given up where it stands.
iter(i) ==
    /\ prev_result' = [prev_result EXCEPT ![i] =
           IF it_pc[i] = "none" THEN "none"
           ELSE IF Running(i) THEN "abandoned" ELSE it_result[i]]
    /\ prev_yielded' = [prev_yielded EXCEPT ![i] =
           IF it_result[i] = "done" THEN yielded[i] ELSE <<>>]
    /\ more_results' = [more_results EXCEPT ![i] = TRUE]
    /\ marker' = [marker EXCEPT ![i] = NoMarker]
    /\ result_list' = [result_list EXCEPT ![i] = EmptyResultList]
    /\ pos' = [pos EXCEPT ![i] = 0]
    /\ yielded' = [yielded EXCEPT ![i] = <<>>]
    /\ fetched' = [fetched EXCEPT ![i] = <<>>]
    /\ it_result' = [it_result EXCEPT ![i] = "none"]
    /\ it_pc' = [it_pc EXCEPT ![i] = "while"]
    /\ UNCHANGED pages
    /\ UNCHANGED <<waitVars, lcVars>>

\* while more_results: (false) the generator returns
WhileDone(i) ==
    /\ it_pc[i] = "while"
    /\ ~more_results[i]
    /\ it_pc' = [it_pc EXCEPT ![i] = "end"]
    /\ it_result' = [it_result EXCEPT ![i] = "done"]
    /\ UNCHANGED <<pages, marker, more_results, result_list, pos, yielded,
                   fetched, prev_yielded, prev_result>>
    /\ UNCHANGED <<waitVars, lcVars>>

\* while more_results: result_list = self.list(marker=marker)
List(i) ==
    /\ it_pc[i] = "while"
    /\ more_results[i]
    /\ Len(fetched[i]) < MaxFetch
    /\ fetched' = [fetched EXCEPT ![i] = Append(@, marker[i])]
    /\ result_list' = [result_list EXCEPT ![i] = pages[marker[i]]]
    /\ pos' = [pos EXCEPT ![i] = 0]
    /\ it_pc' = [it_pc EXCEPT ![i] = "for"]
    /\ UNCHANGED <<pages, marker, more_results, yielded, it_result,
                   prev_yielded, prev_result>>
    /\ UNCHANGED <<waitVars, lcVars>>

\* a variant that swallows the error of self.list() and calls it again
ListFailsRetries(i) ==
    /\ it_pc[i] = "while"
    /\ more_results[i]
    /\ Len(fetched[i]) < MaxFetch
    /\ fetched' = [fetched EXCEPT ![i] = Append(@, marker[i])]
    /\ UNCHANGED <<pages, it_pc, it_result, marker, more_results, result_list,
                   pos, yielded, prev_yielded, prev_result>>
    /\ UNCHANGED <<waitVars, lcVars>>

\* self.list(marker=marker) raises a backend error, which ends the generator
ListFails(i) ==
    /\ it_pc[i] = "while"
    /\ more_results[i]
    /\ Len(fetched[i]) < MaxFetch
    /\ fetched' = [fetched EXCEPT ![i] = Append(@, marker[i])]
    /\ it_pc' = [it_pc EXCEPT ![i] = "end"]
    /\ it_result' = [it_result EXCEPT ![i] = BackendError]
    /\ UNCHANGED <<pages, marker, more_results, result_list, pos, yielded,
                   prev_yielded, prev_result>>
    /\ UNCHANGED <<waitVars, lcVars>>

\* a variant whose for loop starts at the second item of each page
YieldSkipsFirst(i) ==
    /\ it_pc[i] = "for"
    /\ pos[i] < Len(result_list[i].data)
    /\ pos' = [pos EXCEPT ![i] = @ + 1]
    /\ yielded' = [yielded EXCEPT ![i] =
           IF pos[i] = 0 THEN @ ELSE Append(@, result_list[i].data[pos[i] + 1])]
    /\ UNCHANGED <<pages, it_pc, marker, more_results, result_list, fetched,
                   it_result, prev_yielded, prev_result>>
    /\ UNCHANGED <<waitVars, lcVars>>

\* for result in result_list: yield result
Yield(i) ==
    /\ it_pc[i] = "for"
    /\ pos[i] < Len(result_list[i].data)
    /\ pos' = [pos EXCEPT ![i] = @ + 1]
    /\ yielded' = [yielded EXCEPT ![i] = Append(@, result_list[i].data[pos[i] + 1])]
    /\ UNCHANGED <<pages, it_pc, marker, more_results, result_list, fetched,
                   it_result, prev_yielded, prev_result>>
    /\ UNCHANGED <<waitVars, lcVars>>

\* a variant that keeps marker and more_results on self, shared by every
\* generator of the object
AdvanceSharedCursor(i) ==
    /\ it_pc[i] = "for"
    /\ pos[i] = Len(result_list[i].data)
    /\ marker' = [j \in IterIds |-> result_list[i].marker]
    /\ more_results' = [j \in IterIds |-> result_list[i].is_truncated]
    /\ it_pc' = [it_pc EXCEPT ![i] = "while"]
    /\ UNCHANGED <<pages, result_list, pos, yielded, fetched, it_result, prev_yielded, prev_result>>
    /\ UNCHANGED <<waitVars, lcVars>>

\* a variant that also stops at a page without items
AdvanceStopsOnEmptyPage(i) ==
    /\ it_pc[i] = "for"
    /\ pos[i] = Len(result_list[i].data)
    /\ marker' = [marker EXCEPT ![i] = result_list[i].marker]
    /\ more_results' = [more_results EXCEPT ![i] =
           result_list[i].is_truncated /\ result_list[i].data # <<>>]
    /\ it_pc' = [it_pc EXCEPT ![i] = "while"]
    /\ UNCHANGED <<pages, result_list, pos, yielded, fetched, it_result, prev_yielded, prev_result>>
    /\ UNCHANGED <<waitVars, lcVars>>

\* a variant that goes on for as long as the page carries a marker
AdvanceWhileMarker(i) ==
    /\ it_pc[i] = "for"
    /\ pos[i] = Len(result_list[i].data)
    /\ marker' = [marker EXCEPT ![i] = result_list[i].marker]
    /\ more_results' = [more_results EXCEPT ![i] =
                            result_list[i].marker # NoMarker]
    /\ it_pc' = [it_pc EXCEPT ![i] = "while"]
    /\ UNCHANGED <<pages, result_list, pos, yielded, fetched, it_result, prev_yielded, prev_result>>
    /\ UNCHANGED <<waitVars, lcVars>>

\* the for loop is over: marker = result_list.marker;
\* more_results = result_list.is_truncated
Advance(i) ==
    /\ it_pc[i] = "for"
    /\ pos[i] = Len(result_list[i].data)
    /\ marker' = [marker EXCEPT ![i] = result_list[i].marker]
    /\ more_results' = [more_results EXCEPT ![i] = result_list[i].is_truncated]
    /\ it_pc' = [it_pc EXCEPT ![i] = "while"]
    /\ UNCHANGED <<pages, result_list, pos, yielded, fetched, it_result, prev_yielded, prev_result>>
    /\ UNCHANGED <<waitVars, lcVars>>

\* ------------------------------------------------------- BaseLaunchConfig
\* cap on len(self.block_devices)
MaxDevices == 2
\* cap on len(self.net_ids)
MaxNets == 2

None == "None"

\* argument values tried by the callers
\*   source: None, one of the three permitted kinds, an object of another
\*   kind, or a value that is not None but false in a condition ("")
SourceChoices == {None, "Snapshot", "Volume", "MachineImage", "Instance", "EmptyStr"}
RootChoices == {None, "True", "False"}
DeleteChoices == {None}
NetIdChoices == {"net-1"}

\*   size: None, an integer, or a value that is no integer ("10")
NoSize == [kind |-> "None", val |-> 0]
IntSize(n) == [kind |-> "int", val |-> n]
StrSize == [kind |-> "str", val |-> 10]
SizeChoices == {NoSize, StrSize} \cup {IntSize(n) : n \in {-1, 0, 10}}

\* truth value of an argument in a condition
SourceTruthy(source) == source \notin {None, "EmptyStr"}
SizeTruthy(size) == size.kind # "None" /\ ~(size.kind = "int" /\ size.val = 0)
Truthy(flag) == flag = "True"

\* isinstance(source, (Snapshot, Volume, MachineImage))
IsPermittedSource(source) == source \in {"Snapshot", "Volume", "MachineImage"}

\* isinstance(size, six.integer_types)
IsInteger(size) == size.kind = "int"

\* BaseLaunchConfig.BlockDeviceMapping(...)
BlockDeviceMapping(is_volume, source, is_root, size, delete_on_terminate) ==
    [is_volume |-> is_volume, source |-> source, is_root |-> is_root,
     size |-> size, delete_on_terminate |-> delete_on_terminate]

\* the messages of the four InvalidConfigurationException raised
ErrBlankSize == "A size must be specified for a blank new volume"
ErrSource == "Source must be a Snapshot, Volume, MachineImage or None"
ErrSize == "The size must be None or a number greater than 0"
ErrRoot == "An existing block device has already been marked as root"
InvalidConfigurationException == {ErrBlankSize, ErrSource, ErrSize, ErrRoot}

\* for bd in self.block_devices: if bd.is_root
RootMarked == \E k \in 1 .. Len(block_devices) : Truthy(block_devices[k].is_root)

\* a variant that forgets the check of the existing root device
validate_without_root_check(source, is_root, size, delete_on_terminate) ==
    IF source = None /\ ~SizeTruthy(size)
    THEN [raises |-> ErrBlankSize]
    ELSE IF SourceTruthy(source) /\ ~IsPermittedSource(source)
    THEN [raises |-> ErrSource]
    ELSE IF SizeTruthy(size) /\ (~IsInteger(size) \/ ~(size.val > 0))
    THEN [raises |-> ErrSize]
    ELSE [raises |-> None,
          value |-> BlockDeviceMapping(TRUE, source, is_root, size,
                                       delete_on_terminate)]

\* a variant whose first check asks for a size only when size is None
validate_blank_size_is_none(source, is_root, size, delete_on_terminate) ==
    IF source = None /\ size = NoSize
    THEN [raises |-> ErrBlankSize]
    ELSE IF SourceTruthy(source) /\ ~IsPermittedSource(source)
    THEN [raises |-> ErrSource]
    ELSE IF SizeTruthy(size) /\ (~IsInteger(size) \/ ~(size.val > 0))
    THEN [raises |-> ErrSize]
    ELSE IF Truthy(is_root) /\ RootMarked
    THEN [raises |-> ErrRoot]
    ELSE [raises |-> None,
          value |-> BlockDeviceMapping(TRUE, source, is_root, size,
                                       delete_on_terminate)]

\* _validate_volume_device: the exception it raises, or the mapping it returns
validate_volume_device(source, is_root, size, delete_on_terminate) ==
    IF source = None /\ ~SizeTruthy(size)
    THEN [raises |-> ErrBlankSize]
    ELSE IF SourceTruthy(source) /\ ~IsPermittedSource(source)
    THEN [raises |-> ErrSource]
    ELSE IF SizeTruthy(size) /\ (~IsInteger(size) \/ ~(size.val > 0))
    THEN [raises |-> ErrSize]
    ELSE IF Truthy(is_root) /\ RootMarked
    THEN [raises |-> ErrRoot]
    ELSE [raises |-> None,
          value |-> BlockDeviceMapping(TRUE, source, is_root, size,
                                       delete_on_terminate)]

\* add_ephemeral_device
add_ephemeral_device ==
    /\ Len(block_devices) < MaxDevices
    /\ block_devices' = Append(block_devices,
           BlockDeviceMapping(FALSE, None, None, NoSize, None))
    /\ lc_result' = "ok"
    /\ UNCHANGED net_ids
    /\ UNCHANGED <<waitVars, iterVars, callVars>>

\* add_volume_device building and appending the mapping before validating it
add_volume_device_appends_first(source, is_root, size, delete_on_terminate) ==
    LET block_device ==
            validate_volume_device(source, is_root, size, delete_on_terminate)
    IN  /\ Len(block_devices) < MaxDevices
        /\ block_devices' = Append(block_devices,
               BlockDeviceMapping(TRUE, source, is_root, size,
                                  delete_on_terminate))
        /\ lc_result' = IF block_device.raises # None
                        THEN block_device.raises ELSE "ok"
        /\ UNCHANGED net_ids
        /\ UNCHANGED <<waitVars, iterVars, callVars>>

\* add_volume_device: validate, then append what validation returned
add_volume_device(source, is_root, size, delete_on_terminate) ==
    LET block_device ==
            validate_volume_device(source, is_root, size, delete_on_terminate)
    IN  /\ Len(block_devices) < MaxDevices
        /\ IF block_device.raises # None
           THEN /\ lc_result' = block_device.raises
                /\ UNCHANGED block_devices
           ELSE /\ block_devices' = Append(block_devices, block_device.value)
                /\ lc_result' = "ok"
        /\ UNCHANGED net_ids
        /\ UNCHANGED <<waitVars, iterVars, callVars>>

\* a variant that keeps net_ids free of duplicates
add_network_interface_unique(net_id) ==
    /\ Len(net_ids) < MaxNets
    /\ net_ids' = IF \E k \in 1 .. Len(net_ids) : net_ids[k] = net_id
                  THEN net_ids ELSE Append(net_ids, net_id)
    /\ lc_result' = "ok"
    /\ UNCHANGED block_devices
    /\ UNCHANGED <<waitVars, iterVars, callVars>>

\* add_network_interface
add_network_interface(net_id) ==
    /\ Len(net_ids) < MaxNets
    /\ net_ids' = Append(net_ids, net_id)
    /\ lc_result' = "ok"
    /\ UNCHANGED block_devices
    /\ UNCHANGED <<waitVars, iterVars, callVars>>

\* ---- add_volume_device called from several threads on one config: the
\* call of _validate_volume_device (line 288) and the append (line 291) are
\* two steps, and another thread can run between them
Callers == {1, 2}
RaceSources == {None, "Snapshot"}
RaceSizes == {NoSize, IntSize(10)}

\* the calls in flight
InFlight == {c \in Callers : pending[c] # <<>>}

\* a variant whose validation does not look for a root device
add_volume_device_validate_any_root(c, source, is_root, size, delete_on_terminate) ==
    LET block_device ==
            validate_without_root_check(source, is_root, size,
                                        delete_on_terminate)
    IN  /\ pending[c] = <<>>
        /\ Len(block_devices) + Cardinality(InFlight) < MaxDevices
        /\ IF block_device.raises # None
           THEN /\ lc_result' = block_device.raises
                /\ UNCHANGED <<pending, overlap>>
           ELSE /\ pending' = [pending EXCEPT ![c] = <<block_device.value>>]
                /\ overlap' = (overlap \/ InFlight # {})
                /\ UNCHANGED lc_result
        /\ UNCHANGED <<block_devices, net_ids>>
        /\ UNCHANGED <<waitVars, iterVars>>

\* block_device = self._validate_volume_device(...) in thread c: an error
\* ends the call, a valid mapping is held in the local until the append
add_volume_device_validate(c, source, is_root, size, delete_on_terminate) ==
    LET block_device ==
            validate_volume_device(source, is_root, size, delete_on_terminate)
    IN  /\ pending[c] = <<>>
        /\ Len(block_devices) + Cardinality(InFlight) < MaxDevices
        /\ IF block_device.raises # None
           THEN /\ lc_result' = block_device.raises
                /\ UNCHANGED <<pending, overlap>>
           ELSE /\ pending' = [pending EXCEPT ![c] = <<block_device.value>>]
                /\ overlap' = (overlap \/ InFlight # {})
                /\ UNCHANGED lc_result
        /\ UNCHANGED <<block_devices, net_ids>>
        /\ UNCHANGED <<waitVars, iterVars>>

\* self.block_devices.append(block_device) in thread c
add_volume_device_append(c) ==
    /\ pending[c] # <<>>
    /\ block_devices' = Append(block_devices, pending[c][1])
    /\ pending' = [pending EXCEPT ![c] = <<>>]
    /\ lc_result' = "ok"
    /\ UNCHANGED <<net_ids, overlap>>
    /\ UNCHANGED <<waitVars, iterVars>>

\* ------------------------------------------------------- specifications
\* no generator yet, over a backend with one empty page
InitIterVars ==
    /\ it_pc = [i \in IterIds |-> "none"]
    /\ marker = [i \in IterIds |-> NoMarker]
    /\ more_results = [i \in IterIds |-> FALSE]
    /\ result_list = [i \in IterIds |-> EmptyResultList]
    /\ pos = [i \in IterIds |-> 0]
    /\ yielded = [i \in IterIds |-> <<>>]
    /\ fetched = [i \in IterIds |-> <<>>]
    /\ it_result = [i \in IterIds |-> "none"]
    /\ prev_yielded = [i \in IterIds |-> <<>>]
    /\ prev_result = [i \in IterIds |-> "none"]

NoPages == pages = [m \in Markers |-> EmptyResultList]

\* BaseLaunchConfig.__init__
InitLaunchVars ==
    /\ block_devices = <<>>
    /\ net_ids = <<>>
    /\ lc_result = "none"
    /\ pending = [c \in Callers |-> <<>>]
    /\ overlap = FALSE

\* the resource before any wait_for call
InitWaitVars ==
    /\ state \in States
    /\ w_pc = "idle"
    /\ w_result = "none"
    /\ now \in 0 .. 1
    /\ end_time = 0
    /\ target_states = {}
    /\ terminal_states = NoneStates
    /\ timeout = 0
    /\ interval = 0
    /\ nRefresh = 0
    /\ nSleep = 0
    /\ call_time = 0
    /\ call_state = state
    /\ seen = {}

\* lines 139..157, one step of the polling loop
WaitStep ==
    \/ WhileNotTarget
    \/ IfTerminal
    \/ Sleep
    \/ IfTimeout
    \/ \E o \in Outcomes : Refresh(o)

\* SpecWait: any caller of wait_for, a backend free to answer anything
InitWait ==
    /\ InitWaitVars
    /\ script0 = <<>>
    /\ script = script0
    /\ InitIterVars /\ NoPages
    /\ InitLaunchVars

NextWait ==
    \/ \E targets \in TargetChoices, terminals \in TerminalChoices,
          t \in TimeoutChoices, i \in IntervalChoices :
            wait_for(targets, terminals, t, i)
    \/ WaitStep

SpecWait == InitWait /\ [][NextWait]_vars

\* SpecReady: BaseInstance.wait_till_ready against a backend whose first
\* refresh() outcomes are scripted
SeqsUpTo(S, n) == UNION {[1 .. k -> S] : k \in 0 .. n}
Scripts == SeqsUpTo(Outcomes, MaxScript)
ReadyTimeouts == {10}
ReadyIntervals == {2, 5}

InitReady ==
    /\ InitWaitVars
    /\ script0 \in Scripts
    /\ script = script0
    /\ InitIterVars /\ NoPages
    /\ InitLaunchVars

NextReady ==
    \/ \E t \in ReadyTimeouts, i \in ReadyIntervals : wait_till_ready(t, i)
    \/ WaitStep

SpecReady == InitReady /\ [][NextReady]_vars

\* the resource at rest: no wait_for call is made
WaitIdle ==
    /\ InitWaitVars
    /\ state = "PENDING"
    /\ now = 0
    /\ script0 = <<>>
    /\ script = script0

\* SpecIter: one consumer that iterates over a stable backend again and again
InitIter ==
    /\ InitIterVars
    /\ pages \in {f \in [Markers -> UNION {PageChoices(m) : m \in Markers}] :
                    \A m \in Markers : f[m] \in PageChoices(m)}
    /\ WaitIdle
    /\ InitLaunchVars

NextIter ==
    \/ iter(1)
    \/ WhileDone(1)
    \/ List(1)
    \/ ListFails(1)
    \/ Yield(1)
    \/ Advance(1)

SpecIter == InitIter /\ [][NextIter]_vars

\* SpecLaunch: one owner building a launch config, call after call
InitLaunch ==
    /\ InitLaunchVars
    /\ WaitIdle
    /\ InitIterVars /\ NoPages

NextLaunch ==
    \/ add_ephemeral_device
    \/ \E source \in SourceChoices, is_root \in RootChoices,
          size \in SizeChoices, delete_on_terminate \in DeleteChoices :
            add_volume_device(source, is_root, size, delete_on_terminate)
    \/ \E net_id \in NetIdChoices : add_network_interface(net_id)

SpecLaunch == InitLaunch /\ [][NextLaunch]_vars

\* one generator that is consumed to its end over a backend whose list()
\* calls all succeed: the consumer keeps asking for the next item
NextWalk ==
    \/ it_pc[1] = "none" /\ iter(1)
    \/ WhileDone(1)
    \/ List(1)
    \/ Yield(1)
    \/ Advance(1)

SpecWalk == InitIter /\ [][NextWalk]_vars /\ WF_vars(NextWalk)

\* two threads that call add_volume_device on one launch config
NextRace ==
    \/ \E c \in Callers, source \in RaceSources, is_root \in RootChoices,
          size \in RaceSizes, delete_on_terminate \in DeleteChoices :
            add_volume_device_validate(c, source, is_root, size,
                                       delete_on_terminate)
    \/ \E c \in Callers : add_volume_device_append(c)

SpecRace == InitLaunch /\ [][NextRace]_vars

\* two generators of one object, each made once and consumed in any
\* interleaving with the other, over a backend whose list() calls succeed
NextPair ==
    \/ \E i \in IterIds : it_pc[i] = "none" /\ iter(i)
    \/ \E i \in IterIds : WhileDone(i)
    \/ \E i \in IterIds : List(i)
    \/ \E i \in IterIds : Yield(i)
    \/ \E i \in IterIds : Advance(i)

SpecPair == InitIter /\ [][NextPair]_vars

\* SpecWaitFair: SpecWait with a thread that keeps running: a wait_for call
\* that can take a step takes one
SpecWaitFair == InitWait /\ [][NextWait]_vars /\ WF_vars(WaitStep)

\* ================================================================ claims
\* ---------------------------------------------------------------- wait_for
Called == w_pc # "idle"
Done == w_pc = "done"
Valid == ValidArgs(timeout, interval)
Elapsed == now - call_time

\* the resource showed no state of target_states or terminal_states, and
\* every refresh() showed a state
NeverTargetNorTerminal ==
    /\ seen \cap (target_states \cup OrEmpty(terminal_states)) = {}
    /\ w_result # BackendError

\* C1: a wait_for call with valid timeout and interval on a resource whose
\* state is in target_states at call time makes no refresh() and no sleep,
\* lets no time pass and ends with success, whatever terminal_states,
\* timeout and interval are.
C1_TargetAtCallReturnsAtOnce ==
    (Called /\ Valid /\ call_state \in target_states) =>
        /\ nRefresh = 0
        /\ nSleep = 0
        /\ now = call_time
        /\ w_pc \in {"while", "done"}
        /\ (Done => w_result = "True")

\* C1 witness: such a call has returned, its state a terminal state as well
C1_Witness ==
    /\ Done /\ Valid /\ w_result = "True"
    /\ call_state \in target_states
    /\ call_state \in OrEmpty(terminal_states)
    /\ timeout > interval /\ interval > 0
    /\ nRefresh = 0

\* C2: once the loop stands before a state that is in terminal_states and
\* not in target_states (lines 139 and 140), its next steps only go from the
\* while test to the if test and from the if test to the terminal-state
\* error: no sleep, no refresh(), no time passes, the state is not read anew.
C2_TerminalFailsWithoutSleepOrRefresh ==
    [][ ( /\ w_pc \in {"while", "if_terminal"}
          /\ state \in OrEmpty(terminal_states)
          /\ state \notin target_states )
        => ( /\ nSleep' = nSleep
             /\ nRefresh' = nRefresh
             /\ now' = now
             /\ state' = state
             /\ \/ w_pc = "while" /\ w_pc' = "if_terminal" /\ w_result' = "none"
                \/ w_pc = "if_terminal" /\ w_pc' = "done"
                                        /\ w_result' = "TerminalState" ) ]_vars

\* C2 witness: a terminal state that a refresh() brought has failed the wait
C2_Witness ==
    /\ Done /\ w_result = "TerminalState"
    /\ call_state \notin OrEmpty(terminal_states)
    /\ nRefresh = 2 /\ nSleep = 2

\* C3: with valid arguments and interval > 0, a wait_for call during which
\* the resource shows no target and no terminal state ends with the timeout
\* error after exactly floor(timeout / interval) refresh() calls.
C3_TimeoutAfterFloorRefreshes ==
    (Done /\ Valid /\ interval > 0 /\ NeverTargetNorTerminal) =>
        /\ w_result = "WaitTimeout"
        /\ nRefresh = timeout \div interval

\* C3 witness: a timeout whose timeout is no multiple of its interval
C3_Witness ==
    /\ Done /\ w_result = "WaitTimeout" /\ NeverTargetNorTerminal
    /\ timeout = 3 /\ interval = 2 /\ nRefresh = 1

\* C4 as stated: the timeout error comes after an elapsed time in
\* [timeout, timeout + interval).
C4_Original_ElapsedInHalfOpenRange ==
    (Done /\ Valid /\ interval > 0 /\ NeverTargetNorTerminal) =>
        /\ timeout <= Elapsed
        /\ Elapsed < timeout + interval

\* C4 as amended: the timeout error comes after an elapsed time in
\* (timeout, timeout + interval], namely after floor(timeout / interval) + 1
\* sleeps; when timeout is a multiple of interval that is timeout + interval.
C4_ElapsedInRange ==
    (Done /\ Valid /\ interval > 0 /\ NeverTargetNorTerminal) =>
        /\ timeout < Elapsed
        /\ Elapsed <= timeout + interval
        /\ Elapsed = (timeout \div interval + 1) * interval
        /\ nSleep = timeout \div interval + 1

\* C4 witness: a timeout whose timeout is a multiple of its interval
C4_Witness ==
    /\ Done /\ w_result = "WaitTimeout" /\ NeverTargetNorTerminal
    /\ timeout = 2 /\ interval = 1 /\ Elapsed = 3

\* the scenario of C5: wait_for(target_states={RUNNING},
\* terminal_states={ERROR, TERMINATED}, timeout=10, interval=2)
Scenario ==
    /\ Called
    /\ target_states = {"RUNNING"}
    /\ OrEmpty(terminal_states) = {"ERROR", "TERMINATED"}
    /\ timeout = 10
    /\ interval = 2

\* C5 as stated: on a resource (PENDING when called) whose refresh() calls
\* yield PENDING, PENDING, RUNNING, the scenario returns success after
\* exactly 2 refresh() calls.
C5_Original_TwoRefreshes ==
    (Scenario /\ Done /\ call_state = "PENDING"
        /\ script0 = <<"PENDING", "PENDING", "RUNNING">>) =>
        /\ w_result = "True"
        /\ nRefresh = 2

\* C5 as amended: the scenario returns success after exactly 2 refresh()
\* calls when the states the resource shows are PENDING, PENDING, RUNNING,
\* that is PENDING when called and PENDING, RUNNING from its refresh()
\* calls; when the refresh() calls themselves yield PENDING, PENDING,
\* RUNNING it returns success after exactly 3.
C5_RefreshesOfScenario ==
    /\ (Scenario /\ Done /\ call_state = "PENDING"
          /\ script0 = <<"PENDING", "RUNNING">>) =>
            (w_result = "True" /\ nRefresh = 2 /\ Elapsed = 4)
    /\ (Scenario /\ Done /\ call_state = "PENDING"
          /\ script0 = <<"PENDING", "PENDING", "RUNNING">>) =>
            (w_result = "True" /\ nRefresh = 3 /\ Elapsed = 6)

\* C5 witness: the scenario has returned after PENDING, PENDING, RUNNING
C5_Witness ==
    /\ Scenario /\ Done /\ w_result = "True"
    /\ call_state = "PENDING"
    /\ script0 = <<"PENDING", "RUNNING">>
    /\ nRefresh = 2

\* ------------------------------------------------------------ __iter__
\* the pages generator i was given so far, in the order of its list() calls
PagesOf(i) == [k \in 1 .. Len(fetched[i]) |-> pages[fetched[i][k]]]

\* all pages given but the last are truncated, the last one is not
TruncatedButLast(ps) ==
    /\ Len(ps) >= 1
    /\ \A k \in 1 .. Len(ps) : ps[k].is_truncated <=> k < Len(ps)

\* C6: a generator that has returned was given pages P1..Pn of which only
\* Pn is not truncated, and has yielded exactly P1.data ++ ... ++ Pn.data;
\* while it stands in a page it has yielded the pages before it and the
\* items of this page up to its position.
C6_YieldsConcatenation ==
    \A i \in IterIds :
        /\ it_result[i] = "done" =>
             /\ TruncatedButLast(PagesOf(i))
             /\ yielded[i] = Flatten(fetched[i])
        /\ it_pc[i] = "for" =>
             yielded[i] = Flatten(SubSeq(fetched[i], 1, Len(fetched[i]) - 1))
                          \o SubSeq(result_list[i].data, 1, pos[i])

\* C6 witness: a walk of three pages, one of them empty, has returned
C6_Witness ==
    /\ it_result[1] = "done"
    /\ fetched[1] = <<NoMarker, "a", "b">>
    /\ pages["a"].data = <<>>
    /\ Len(yielded[1]) = 4

\* C7: every generator passes marker = None to its first list() call, however
\* the generator before it ended; a generator that has returned has made the
\* list() calls of the whole walk of the backend; and it has yielded what
\* the generator before it yielded, when that one returned as well.
C7_RestartableUncached ==
    \A i \in IterIds :
        /\ fetched[i] # <<>> => fetched[i][1] = NoMarker
        /\ it_result[i] = "done" => fetched[i] = Walk(NoMarker, MaxFetch)
        /\ (it_result[i] = "done" /\ prev_result[i] = "done") =>
             yielded[i] = prev_yielded[i]

\* C7 witness: a second walk of three pages has returned after a first one
C7_Witness ==
    /\ it_result[1] = "done"
    /\ prev_result[1] = "done"
    /\ Len(fetched[1]) = 3
    /\ Len(yielded[1]) >= 3
    /\ yielded[1] = prev_yielded[1]

\* ---------------------------------------------------- BaseLaunchConfig
\* the positions of the specs marked as root
Roots == {k \in 1 .. Len(block_devices) : block_devices[k].is_root = "True"}

\* the last call raised InvalidConfigurationException and appended nothing
Rejected ==
    /\ lc_result' \in InvalidConfigurationException
    /\ block_devices' = block_devices

\* C8: block_devices never holds two specs with is_root = True, and every
\* add_volume_device(is_root=True, ...) call made while a spec is marked as
\* root raises InvalidConfigurationException.
C8_AtMostOneRoot ==
    /\ [](Cardinality(Roots) <= 1)
    /\ [][ ( /\ Roots # {}
             /\ \E source \in SourceChoices, size \in SizeChoices,
                   delete_on_terminate \in DeleteChoices :
                   add_volume_device(source, "True", size, delete_on_terminate) )
           => Rejected ]_vars

\* C8 witness: a second root device was refused
C8_Witness ==
    /\ lc_result = ErrRoot
    /\ Len(block_devices) = 1
    /\ Roots = {1}

\* C9: every add_volume_device call with source None and size None or 0
\* raises InvalidConfigurationException, and every volume spec of
\* block_devices without a source has an integer size > 0.
C9_BlankVolumeNeedsSize ==
    /\ [][ ( \E is_root \in RootChoices, size \in {NoSize, IntSize(0)},
                delete_on_terminate \in DeleteChoices :
                add_volume_device(None, is_root, size, delete_on_terminate) )
           => Rejected ]_vars
    /\ [](\A k \in 1 .. Len(block_devices) :
            (block_devices[k].is_volume /\ block_devices[k].source = None) =>
                (IsInteger(block_devices[k].size) /\ block_devices[k].size.val > 0))

\* C9 witness: a blank volume without size was refused after one with a size
C9_Witness ==
    /\ lc_result = ErrBlankSize
    /\ Len(block_devices) = 1
    /\ block_devices[1].is_volume
    /\ block_devices[1].source = None

\* C10: every volume spec of block_devices whose size is not None has an
\* integer size > 0.
C10_PresentSizeIsPositive ==
    \A k \in 1 .. Len(block_devices) :
        (block_devices[k].is_volume /\ block_devices[k].size # NoSize) =>
            (IsInteger(block_devices[k].size) /\ block_devices[k].size.val > 0)

\* C11: every volume spec of block_devices whose source is not None has a
\* source that is a Snapshot, a Volume or a MachineImage.
C11_PresentSourceIsPermitted ==
    \A k \in 1 .. Len(block_devices) :
        (block_devices[k].is_volume /\ block_devices[k].source # None) =>
            IsPermittedSource(block_devices[k].source)

\* arguments that pass every check of the specification on the current list
ValidVolumeArgs(source, is_root, size) ==
    /\ source = None \/ IsPermittedSource(source)
    /\ size = NoSize => source # None
    /\ size # NoSize => (IsInteger(size) /\ size.val > 0)
    /\ is_root = "True" => Roots = {}

\* C12: a call that raises InvalidConfigurationException leaves
\* block_devices and net_ids exactly as they were, and right after a failed
\* call every valid argument set still passes validation against that list
\* and yields the spec that carries it.
C12_FailedCallChangesNothing ==
    /\ [][ lc_result' \in InvalidConfigurationException =>
             (block_devices' = block_devices /\ net_ids' = net_ids) ]_vars
    /\ [](lc_result \in InvalidConfigurationException =>
            \A source \in SourceChoices, is_root \in RootChoices,
               size \in SizeChoices, delete_on_terminate \in DeleteChoices :
               ValidVolumeArgs(source, is_root, size) =>
                   validate_volume_device(source, is_root, size,
                                          delete_on_terminate)
                     = [raises |-> None,
                        value |-> BlockDeviceMapping(TRUE, source, is_root,
                                      size, delete_on_terminate)])

\* C12 witness: a call failed on a configuration that holds a spec and a
\* network id
C12_Witness ==
    /\ lc_result \in InvalidConfigurationException
    /\ Len(block_devices) = 1
    /\ Len(net_ids) = 1

\* ------------------------------------------------- wait_for, continued
\* C13: when the k-th refresh() of a wait raises the backend's error, the
\* wait ends there with that error: it made k sleeps and k refreshes and
\* makes no more, and the state is the one the resource had before that
\* refresh.
C13_RefreshErrorEndsWait ==
    \A k \in 1 .. Len(script0) :
        (k <= nRefresh /\ script0[k] = BackendError) =>
            /\ Done
            /\ w_result = BackendError
            /\ nRefresh = k
            /\ nSleep = k
            /\ state = IF k = 1 THEN call_state ELSE script0[k - 1]

\* C13 witness: the second refresh() failed after the first showed PENDING
C13_Witness ==
    /\ Done
    /\ w_result = BackendError
    /\ nRefresh = 2
    /\ script0 = <<"PENDING", BackendError, "RUNNING">>


\* C15: the test against target_states comes before the test against
\* terminal_states: the terminal test is only made on a state that is not in
\* target_states, so a valid wait that ends on a state of both sets ends
\* with success and no wait fails as terminal on a state of target_states.
C15_TargetBeforeTerminal ==
    /\ w_pc = "if_terminal" => state \notin target_states
    /\ w_result = "TerminalState" => state \notin target_states
    /\ (Done /\ Valid /\ state \in target_states \cap OrEmpty(terminal_states))
           => w_result = "True"

\* C15 witness: a refresh() showed a state of both sets and the wait succeeded
C15_Witness ==
    /\ Done
    /\ w_result = "True"
    /\ nRefresh >= 1
    /\ call_state \notin target_states
    /\ state \in target_states \cap OrEmpty(terminal_states)


\* C20 as stated: a timeout failure is of another kind of error than a
\* terminal-state failure.
C20_Original_DistinctKinds ==
    (Done /\ w_result = "WaitTimeout") =>
        Raised.type # WaitStateException(MsgTerminal, state).type

\* C20: a terminal-state failure and a timeout failure raise the same class,
\* WaitStateException, with two different messages; the message of a
\* terminal-state failure reports a state of terminal_states, the message of
\* a timeout failure the state of the last test, which is in neither set,
\* and the clock is past end_time.
C20_SameKindTwoMessages ==
    /\ (Done /\ w_result = "TerminalState") =>
           /\ Raised.type = "WaitStateException"
           /\ Raised.message = MsgTerminal
           /\ Raised.state = state
           /\ Raised.state \in OrEmpty(terminal_states) \ target_states
    /\ (Done /\ w_result = "WaitTimeout") =>
           /\ Raised.type = "WaitStateException"
           /\ Raised.message = MsgTimeout
           /\ Raised.message # MsgTerminal
           /\ Raised.state = state
           /\ Raised.state \notin target_states \cup OrEmpty(terminal_states)
           /\ now > end_time

\* C20 witness: a wait with terminal states timed out on a state that a
\* refresh() showed
C20_Witness ==
    /\ Done
    /\ w_result = "WaitTimeout"
    /\ nRefresh >= 1
    /\ OrEmpty(terminal_states) # {}
    /\ Raised.state = "PENDING"
    /\ call_state # "PENDING"


\* C23 as stated: every wait_for call with valid arguments, interval = 0
\* included, ends.
C23_Original_EveryValidWaitEnds == (Called /\ Valid) ~> Done

\* C23: every wait_for call with valid arguments and interval > 0 ends, with
\* True, a WaitStateException or the error of refresh(), after at most
\* floor(timeout / interval) + 1 sleeps; a call with valid arguments and
\* interval = 0 lets no time pass and never ends with the timeout error.
C23_PositiveIntervalWaitEnds ==
    /\ (Called /\ Valid /\ interval > 0) ~> Done
    /\ [](( Called /\ Valid /\ interval > 0) =>
            nSleep <= timeout \div interval + 1)
    /\ []((Done /\ Valid) =>
            w_result \in {"True", "TerminalState", "WaitTimeout", BackendError})
    /\ []((Called /\ Valid /\ interval = 0) =>
            (now = call_time /\ w_result # "WaitTimeout"))

\* C23 witness: a wait with interval = 0 has slept more often than any
\* timeout of the model divided by any interval allows, and polls on
\* without end
C23_Witness ==
    /\ Called /\ Valid
    /\ interval = 0
    /\ w_pc = "sleep"
    /\ nSleep = MaxPolls
    /\ now = call_time

\* ------------------------------------------------- __iter__, continued
\* C14: when the k-th list() call of a generator raises, the generator ends
\* with that error, having yielded exactly the items of the pages of its
\* first k-1 calls in order, and makes no further list() call.
C14_ListErrorEndsIteration ==
    /\ [](\A i \in IterIds :
            it_result[i] = BackendError =>
                /\ it_pc[i] = "end"
                /\ fetched[i] # <<>>
                /\ yielded[i] =
                       Flatten(SubSeq(fetched[i], 1, Len(fetched[i]) - 1)))
    /\ [][ \A i \in IterIds :
             (Len(fetched'[i]) = Len(fetched[i]) + 1 /\ it_pc'[i] # "for") =>
                 /\ it_result'[i] = BackendError
                 /\ it_pc'[i] = "end"
                 /\ yielded'[i] = yielded[i] ]_vars
    /\ [][ \A i \in IterIds :
             (it_result[i] = BackendError /\ it_pc'[i] = "end") =>
                 /\ fetched'[i] = fetched[i]
                 /\ yielded'[i] = yielded[i]
                 /\ it_result'[i] = BackendError ]_vars

\* C14 witness: the third list() call failed after two pages with items
C14_Witness ==
    /\ it_result[1] = BackendError
    /\ Len(fetched[1]) = 3
    /\ pages[fetched[1][1]].data # <<>>
    /\ pages[fetched[1][2]].data # <<>>
    /\ Len(yielded[1]) >= 2

\* C16: the first list() call of a generator gets marker None and every
\* later one gets the marker of the page of the call before it, which was
\* truncated: no list() call follows a page that is not truncated, whatever
\* marker it carries, so a generator that has returned after n pages has
\* made exactly n list() calls.
C16_MarkerChain ==
    \A i \in IterIds :
        /\ \A k \in 1 .. Len(fetched[i]) :
              IF k = 1
              THEN fetched[i][k] = NoMarker
              ELSE /\ fetched[i][k] = pages[fetched[i][k - 1]].marker
                   /\ pages[fetched[i][k - 1]].is_truncated
        /\ it_result[i] = "done" =>
              /\ ~pages[fetched[i][Len(fetched[i])]].is_truncated
              /\ Len(fetched[i]) = Len(Walk(NoMarker, MaxFetch))

\* C16 witness: a walk has returned after two list() calls although its
\* last page, which is not truncated, carries a marker
C16_Witness ==
    /\ it_result[1] = "done"
    /\ Len(fetched[1]) = 2
    /\ fetched[1][2] # NoMarker
    /\ pages[fetched[1][2]].marker # NoMarker

\* the walk of the backend from marker None comes to a page that is not
\* truncated
FiniteBackend ==
    LET w == Walk(NoMarker, MaxFetch)
    IN  ~pages[w[Len(w)]].is_truncated

\* C17: a generator consumed to its end returns iff the walk of the backend
\* comes to a page that is not truncated. It returns at the first such
\* page; after a truncated page it goes on with the marker of that page,
\* None included, and over a backend whose pages are all truncated it never
\* returns; over a backend with a page that is not truncated on the walk it
\* does return.
C17_ReturnsIffNotTruncated ==
    /\ [](it_result[1] = "done" =>
            (FiniteBackend /\ TruncatedButLast(PagesOf(1))))
    /\ []((it_pc[1] = "while" /\ fetched[1] # <<>>) =>
            LET last == pages[fetched[1][Len(fetched[1])]]
            IN  /\ more_results[1] = last.is_truncated
                /\ marker[1] = last.marker)
    /\ [](~FiniteBackend => it_result[1] # "done")
    /\ (FiniteBackend ~> it_result[1] = "done")

\* C17 witness: a truncated page without marker is fetched again and again
C17_Witness ==
    /\ it_pc[1] = "while"
    /\ more_results[1]
    /\ fetched[1] = <<NoMarker, NoMarker, NoMarker>>
    /\ it_result[1] = "none"

\* ------------------------------------------- BaseLaunchConfig, continued
\* the four checks as the specification words them
ViolatesBlankSize(source, size) == source = None /\ size \in {NoSize, IntSize(0)}
ViolatesSource(source) == source # None /\ ~IsPermittedSource(source)
ViolatesSize(size) == size # NoSize /\ ~(IsInteger(size) /\ size.val > 0)
ViolatesRoot(is_root) == is_root = "True" /\ Roots # {}

\* the checks an argument set violates, by their place in the order
Violated(source, is_root, size) ==
    {c \in 1 .. 4 : \/ c = 1 /\ ViolatesBlankSize(source, size)
                    \/ c = 2 /\ ViolatesSource(source)
                    \/ c = 3 /\ ViolatesSize(size)
                    \/ c = 4 /\ ViolatesRoot(is_root)}

\* the error of the c-th check
ErrorOf(c) == <<ErrBlankSize, ErrSource, ErrSize, ErrRoot>>[c]

\* C18: an add_volume_device call whose arguments violate two or more of
\* the checks (a) blank volume without size, (b) source of another kind,
\* (c) size not a positive integer, (d) root already set, raises the error
\* of the earliest of the checks it violates.
C18_EarliestViolatedCheck ==
    [][ \A source \in SourceChoices, is_root \in RootChoices,
           size \in SizeChoices, delete_on_terminate \in DeleteChoices :
           ( /\ Cardinality(Violated(source, is_root, size)) >= 2
             /\ add_volume_device(source, is_root, size, delete_on_terminate) )
           => \A c \in Violated(source, is_root, size) :
                  (\A d \in Violated(source, is_root, size) : c <= d)
                      => lc_result' = ErrorOf(c) ]_vars

\* C19: every step leaves block_devices and net_ids as they were or appends
\* one element at the end of one of them and leaves the other alone. A spec
\* appended to block_devices is the one of an add_ephemeral_device call or
\* the one of the add_volume_device call with the arguments it carries;
\* every add_network_interface call succeeds and appends its id, duplicate
\* or not; no step shortens or reorders either list.
C19_AppendOnly ==
    /\ [][ \/ block_devices' = block_devices /\ net_ids' = net_ids
           \/ /\ net_ids' = net_ids
              /\ lc_result' = "ok"
              /\ Len(block_devices') = Len(block_devices) + 1
              /\ SubSeq(block_devices', 1, Len(block_devices)) = block_devices
              /\ LET bd == block_devices'[Len(block_devices')]
                 IN  IF bd.is_volume
                     THEN add_volume_device(bd.source, bd.is_root, bd.size,
                                            bd.delete_on_terminate)
                     ELSE /\ add_ephemeral_device
                          /\ bd = BlockDeviceMapping(FALSE, None, None, NoSize,
                                                     None)
           \/ /\ block_devices' = block_devices
              /\ lc_result' = "ok"
              /\ \E net_id \in NetIdChoices :
                    net_ids' = Append(net_ids, net_id) ]_vars
    /\ [][ \A net_id \in NetIdChoices :
             add_network_interface(net_id) =>
                 /\ lc_result' = "ok"
                 /\ net_ids' = Append(net_ids, net_id)
                 /\ block_devices' = block_devices ]_vars

\* C19 witness: a volume spec was appended after an ephemeral one, and the
\* same network id was added twice
C19_Witness ==
    /\ lc_result = "ok"
    /\ Len(block_devices) = 2
    /\ ~block_devices[1].is_volume
    /\ block_devices[2].is_volume
    /\ net_ids = <<"net-1", "net-1">>

\* C21: with the validation and the append of add_volume_device as two
\* steps of each thread, block_devices can come to hold two specs with
\* is_root = True (the witness); it does so only after a validation that
\* ran while another call was validated and not appended yet, and it never
\* holds more roots than there are threads.
C21_TwoRootsOnlyByInterleaving ==
    /\ Cardinality(Roots) >= 2 => overlap
    /\ Cardinality(Roots) <= Cardinality(Callers)
    /\ \A c \in Callers :
          pending[c] # <<>> => pending[c][1].is_volume

\* C21 witness: two add_volume_device(is_root=True, size=10) calls have both
\* appended their spec
C21_Witness ==
    /\ Len(block_devices) = 2
    /\ Roots = {1, 2}
    /\ \A k \in Roots : block_devices[k].size = IntSize(10)
    /\ pending = [c \in Callers |-> <<>>]

\* ------------------------------------------------- two generators
\* the locals of generator i and what it has done
LocalsOf(i) == <<it_pc[i], marker[i], more_results[i], result_list[i], pos[i],
                 yielded[i], fetched[i], it_result[i]>>

\* C22: of two generators that run interleaved over one stable backend,
\* every step changes the locals of one generator only; each generator
\* between two pages holds the marker and the is_truncated of its own last
\* page, and each one that has returned has made the list() calls of the
\* whole walk of the backend and has yielded the items of all its pages in
\* order, wherever the other one stands.
C22_GeneratorsIndependent ==
    /\ [][ \E i \in IterIds :
             \A j \in IterIds \ {i} : LocalsOf(j)' = LocalsOf(j) ]_vars
    /\ [](\A i \in IterIds :
            /\ (it_pc[i] = "while" /\ fetched[i] # <<>>) =>
                  /\ marker[i] = pages[fetched[i][Len(fetched[i])]].marker
                  /\ more_results[i] =
                         pages[fetched[i][Len(fetched[i])]].is_truncated
            /\ it_result[i] = "done" =>
                  /\ fetched[i] = Walk(NoMarker, MaxFetch)
                  /\ TruncatedButLast(PagesOf(i))
                  /\ yielded[i] = Flatten(fetched[i]))

\* C22 witness: generator 1 has returned from a walk of three pages while
\* generator 2 stands in its second page
C22_Witness ==
    /\ it_result[1] = "done"
    /\ Len(fetched[1]) = 3
    /\ Len(yielded[1]) = 4
    /\ it_pc[2] = "for"
    /\ Len(fetched[2]) = 2
    /\ marker[1] # marker[2]

====
